---------------------------- MODULE Spec2Model ----------------------------
(***************************************************************************)
(* Model of simulate_overlapping_generations_pedigree                      *)
(* (src/simulate_pedigree.py): the chunked generation loop with its        *)
(* rolling dictionary of generation pools, the sire/dam resampling loop,   *)
(* the export of the pedigree and of the genotyped cross-reference.        *)
(*                                                                         *)
(* Arrays are 1-based sequences; a Python position p is index p + 1.       *)
(***************************************************************************)
EXTENDS Integers, Sequences, FiniteSets, TLC

\* Bounds of the inputs explored by the model.
MaxIndividuals == 5
MaxFounders == 2
MaxOverlap == 2
MaxGenotyped == 3

\* chunk_size = 100_000 in the source; scaled down so that several
\* generation steps fit in a small population.  As in the source it is at
\* least 2, so only the last cohort of a run can have fewer than 2 ids.
chunk_size == 2

\* Bounds of the inputs of simulate_genotypes.
MaxGenoLines == 3    \* lines of the genotyped file
MaxGenoId == 10      \* largest id in the genotyped file
MaxSnps == 2         \* n_snps
MaxCalls == 4        \* lines * n_snps, the genotype calls of one run

\* chunk_size = 10000 in simulate_genotypes; scaled down so that a file of
\* a few lines takes more than one chunk.
geno_chunk_size == 2

VARIABLES
    n_individuals,       \* parameter
    n_genotyped,         \* parameter
    n_founders,          \* parameter
    generation_overlap,  \* parameter
    pc,                  \* position in the function
    err,                 \* exception raised, "none" while running
    ids, sires, dams,    \* the pedigree arrays
    current_generation,
    generation_pools,    \* dict: generation index -> array of ids
    current_id,
    total_generated,
    available_parents,
    n_offspring,
    selected_sires,
    selected_dams,
    end_id,
    pedigree_file,       \* rows written to output_ped
    genotyped_ids,
    genotyped_file,      \* rows written to output_geno
    ped_text,            \* the lines of output_ped
    xref_text,           \* the lines of output_geno
    reported,            \* the count printed after the loop
    outputs,             \* the files written so far
    cohort_log,          \* history: every cohort ever registered (never evicted)
    geno_input,          \* simulate_genotypes: the lines of genotyped_file
    n_snps,              \* simulate_genotypes: parameter
    geno_pc,             \* simulate_genotypes: position in the function
    geno_err,            \* simulate_genotypes: exception raised
    geno_ids,            \* simulate_genotypes: ids
    max_id_width,
    chunk_start,
    geno_output,         \* the lines of output_file
    chunk_log            \* history: <<chunk_start, chunk_end>> of every chunk

vars == <<n_individuals, n_genotyped, n_founders, generation_overlap, pc, err,
          ids, sires, dams, current_generation, generation_pools, current_id,
          total_generated, available_parents, n_offspring, selected_sires,
          selected_dams, end_id, pedigree_file, genotyped_ids, genotyped_file,
          reported, outputs, cohort_log, ped_text, xref_text,
          geno_input, n_snps, geno_pc, geno_err, geno_ids, max_id_width,
          chunk_start, geno_output, chunk_log>>

params == <<n_individuals, n_genotyped, n_founders, generation_overlap>>
store == <<ids, sires, dams>>
batch == <<available_parents, n_offspring, selected_sires, selected_dams, end_id>>
export == <<pedigree_file, genotyped_ids, genotyped_file, reported, outputs,
            ped_text, xref_text>>
cursor == <<current_generation, generation_pools, current_id, total_generated, cohort_log>>
geno == <<geno_input, n_snps, geno_pc, geno_err, geno_ids, max_id_width,
          chunk_start, geno_output, chunk_log>>
pedigree == <<params, pc, err, store, cursor, batch, export>>

----------------------------------------------------------------------------
\* numpy / Python helpers

Min(a, b) == IF a < b THEN a ELSE b
Max(a, b) == IF a > b THEN a ELSE b

\* np.arange(a, b): a, a+1, ..., b-1 (empty when b <= a)
Arange(a, b) == [i \in 1..(b - a) |-> a + i - 1]

\* np.zeros(n) for n >= 0
Zeros(n) == [i \in 1..n |-> 0]

\* arr[:k] = v  (k >= 0; the slice is clipped to the array)
FillPrefix(arr, k, v) == [i \in DOMAIN arr |-> IF i <= k THEN v ELSE arr[i]]

\* the elements of a sequence, as a set
Range(s) == {s[i] : i \in DOMAIN s}

\* np.concatenate of a non-empty list of arrays
RECURSIVE Concatenate(_)
Concatenate(list) ==
    IF list = <<>> THEN <<>> ELSE Head(list) \o Concatenate(Tail(list))

\* arr[start:] with Python's index normalisation (negative counts from the end)
SliceFrom(arr, start) ==
    LET n == Len(arr)
        s == IF start < 0 THEN Max(n + start, 0) ELSE Min(start, n)
    IN  [i \in 1..(n - s) |-> arr[s + i]]

\* variant: the slice starts one position early (arr[lo-1:hi-1] = vals)
SliceAssignShifted(arr, lo, hi, vals) ==
    [i \in DOMAIN arr |->
        IF lo - 1 < i /\ i <= hi - 1 THEN vals[i - lo + 1] ELSE arr[i]]

\* variant: the slice is written one position late
SliceAssignLate(arr, lo, hi, vals) ==
    [i \in DOMAIN arr |-> IF lo + 1 < i /\ i <= hi + 1 THEN vals[i - lo - 1] ELSE arr[i]]

\* arr[lo:hi] = vals, for 0 <= lo <= hi <= len(arr) and len(vals) = hi - lo
SliceAssign(arr, lo, hi, vals) ==
    [i \in DOMAIN arr |-> IF lo < i /\ i <= hi THEN vals[i - lo] ELSE arr[i]]

\* selected_sires == selected_dams (element-wise mask)
SameParent(ss, ds) == [i \in DOMAIN ss |-> ss[i] = ds[i]]

\* np.any(mask)
AnyTrue(mask) == \E i \in DOMAIN mask : mask[i]

\* np.sum(mask)
CountTrue(mask) == Cardinality({i \in DOMAIN mask : mask[i]})

\* variant: the positions outside the mask are overwritten too
MaskedAssignAll(arr, mask, vals) ==
    [i \in DOMAIN arr |->
        IF mask[i] THEN vals[Cardinality({k \in 1..i : mask[k]})] ELSE vals[1]]

\* arr[mask] = vals: the k-th TRUE position receives vals[k]
MaskedAssign(arr, mask, vals) ==
    [i \in DOMAIN arr |->
        IF mask[i] THEN vals[Cardinality({k \in 1..i : mask[k]})] ELSE arr[i]]

----------------------------------------------------------------------------
\* Text: a string is a sequence of one-character strings, a file a sequence
\* of lines (without their newline).

DigitChars == <<"0", "1", "2", "3", "4", "5", "6", "7", "8", "9">>

\* str(n): the decimal digits of an integer, "-" first when negative
RECURSIVE Str(_)
Str(n) ==
    IF n < 0 THEN <<"-">> \o Str(0 - n)
    ELSE IF n < 10 THEN <<DigitChars[n + 1]>>
    ELSE Str(n \div 10) \o <<DigitChars[(n % 10) + 1]>>

\* sep.join(fields)
RECURSIVE Join(_, _)
Join(fields, sep) ==
    IF fields = <<>> THEN <<>>
    ELSE IF Len(fields) = 1 THEN fields[1]
    ELSE fields[1] \o sep \o Join(Tail(fields), sep)

\* variant: the fields written with no separator between them
CsvRowUnseparated(row) == Join([k \in DOMAIN row |-> Str(row[k])], <<>>)

\* one row of DataFrame.to_csv(sep=' ', index=False, header=False)
CsvRow(row) == Join([k \in DOMAIN row |-> Str(row[k])], <<" ">>)

\* DataFrame.to_csv: one line per row, in row order
ToCsv(rows) == [i \in DOMAIN rows |-> CsvRow(rows[i])]

\* line.split(): the maximal runs of non-blank characters, in order
RECURSIVE Split(_)
Split(line) ==
    IF line = <<>> THEN <<>>
    ELSE IF Head(line) = " " THEN Split(Tail(line))
    ELSE LET rest == Split(Tail(line))
         IN  IF Len(line) > 1 /\ line[2] # " "
             THEN <<<<Head(line)>> \o Head(rest)>> \o Tail(rest)
             ELSE <<<<Head(line)>>>> \o rest

\* the value of a digit character
DigitValue(c) == (CHOOSE d \in 1..10 : DigitChars[d] = c) - 1

\* int(token) for an optional "-" followed by decimal digits
RECURSIVE ParseInt(_)
ParseInt(tok) ==
    IF Head(tok) = "-" THEN 0 - ParseInt(Tail(tok))
    ELSE IF Len(tok) = 1 THEN DigitValue(tok[1])
    ELSE 10 * ParseInt(SubSeq(tok, 1, Len(tok) - 1)) + DigitValue(tok[Len(tok)])

\* a line read back: every whitespace-separated field as an integer
ParseRow(line) == [k \in DOMAIN Split(line) |-> ParseInt(Split(line)[k])]

----------------------------------------------------------------------------
\* Pieces of the generation loop

\* variant: the loop test with < in place of <=
LoopCondStrict == current_id < n_individuals

\* while current_id <= n_individuals
LoopCond == current_id <= n_individuals

\* variant: the window reaches one generation further back
ActiveGenerationsWide ==
    Arange(Max(0, current_generation - generation_overlap),
           current_generation + 1)

\* range(max(0, current_generation - generation_overlap + 1), current_generation + 1)
ActiveGenerations ==
    Arange(Max(0, current_generation - generation_overlap + 1),
           current_generation + 1)

\* [generation_pools[gen] for gen in active_generations if gen in generation_pools]
PoolList ==
    LET InPools(gen) == gen \in DOMAIN generation_pools
        kept == SelectSeq(ActiveGenerations, InPools)
    IN  [k \in DOMAIN kept |-> generation_pools[kept[k]]]

\* variant: a full chunk even when fewer ids remain
NOffspringFull == chunk_size

\* min(chunk_size, n_individuals - current_id + 1)
NOffspring == Min(chunk_size, n_individuals - current_id + 1)

\* variant: the resampling loop is never entered
CollidingNever(ss, ds) == FALSE

\* the loop test of the resampling loop: np.any(same_parent)
Colliding(ss, ds) == AnyTrue(SameParent(ss, ds))

\* variant: the new cohort includes end_id
NewCohortIdsInclusive(first, last) == Arange(first, last + 1)

\* np.arange(current_id, end_id): the ids of the new cohort
NewCohortIds(first, last) == Arange(first, last)

\* variant: the oldest retained generation is evicted as well
OldGenSoon == current_generation - generation_overlap

\* variant: eviction reaches into the active window
OldGenEarly == current_generation - generation_overlap + 1

\* variant: eviction lags one generation further behind
OldGenLate == current_generation - generation_overlap - 2

\* old_gen = current_generation - generation_overlap - 1
OldGen == current_generation - generation_overlap - 1

\* variant: nothing is deleted
WithoutNothing(d, k) == d

\* del d[k] when k in d
Without(d, k) == [g \in DOMAIN d \ {k} |-> d[g]]

\* variant: the first n_genotyped ids, ids[:n_genotyped]
GenotypedIdsHead == SubSeq(ids, 1, Min(n_genotyped, Len(ids)))

\* ids[-n_genotyped:]
GenotypedIds == SliceFrom(ids, 0 - n_genotyped)

----------------------------------------------------------------------------
\* Every combination of small inputs, the ones the interface excludes
\* included (zero or negative sizes, more founders or genotyped than
\* individuals, an overlap of zero).
SmallInputs ==
    /\ n_individuals \in -1..MaxIndividuals
    /\ n_genotyped \in 0..MaxGenotyped
    /\ n_founders \in 0..MaxFounders
    /\ generation_overlap \in 0..MaxOverlap

\* The smallest population with three generation steps: a founder cohort of
\* one chunk, two full cohorts and a last cohort of a single id.
ThreeStepInputs ==
    /\ n_founders = chunk_size
    /\ n_individuals = 3 * chunk_size + 1
    /\ n_genotyped \in 1..MaxGenotyped
    /\ generation_overlap \in 1..MaxOverlap

\* One offspring of ten founders: ids and parent ids of two digits.
TwoDigitInputs ==
    /\ n_founders = 10
    /\ n_individuals = 11
    /\ n_genotyped \in 1..MaxGenotyped
    /\ generation_overlap = 1

\* simulate_genotypes has not been called
GenoNotCalled ==
    /\ geno_pc = "idle"
    /\ geno_err = "none"
    /\ geno_input = <<>>
    /\ n_snps = 0
    /\ geno_ids = <<>>
    /\ max_id_width = 0
    /\ chunk_start = 0
    /\ geno_output = <<>>
    /\ chunk_log = <<>>

Init ==
    /\ SmallInputs \/ ThreeStepInputs \/ TwoDigitInputs
    /\ pc = "start"
    /\ err = "none"
    /\ ids = <<>> /\ sires = <<>> /\ dams = <<>>
    /\ current_generation = 0
    /\ generation_pools = <<>>
    /\ cohort_log = <<>>
    /\ current_id = 0
    /\ total_generated = 0
    /\ available_parents = <<>>
    /\ n_offspring = 0
    /\ selected_sires = <<>> /\ selected_dams = <<>>
    /\ end_id = 0
    /\ pedigree_file = <<>>
    /\ genotyped_ids = <<>>
    /\ genotyped_file = <<>>
    /\ reported = 0
    /\ outputs = {}
    /\ ped_text = <<>>
    /\ xref_text = <<>>
    /\ GenoNotCalled

\* lines 28-52: allocate the arrays, create the founders, set the cursor
Allocate ==
    /\ pc = "start"
    /\ IF n_individuals < 0
       THEN \* np.zeros(n_individuals) raises on a negative dimension
            /\ pc' = "error"
            /\ err' = "ValueError"
            /\ UNCHANGED <<store, cursor>>
       ELSE /\ ids' = Arange(1, n_individuals + 1)
            /\ sires' = FillPrefix(Zeros(n_individuals), n_founders, 0)
            /\ dams' = FillPrefix(Zeros(n_individuals), n_founders, 0)
            /\ current_generation' = 0
            /\ generation_pools' = (0 :> Arange(1, n_founders + 1))
            /\ cohort_log' = (0 :> Arange(1, n_founders + 1))
            /\ current_id' = n_founders + 1
            /\ total_generated' = 0
            /\ pc' = "loop"
            /\ err' = err
    /\ UNCHANGED <<geno, params, batch, export>>

\* line 54: the loop test
LoopTest ==
    /\ pc = "loop"
    /\ pc' = IF LoopCond THEN "pool" ELSE "save"
    /\ UNCHANGED <<geno, params, err, store, cursor, batch, export>>

\* lines 60-72: the eligible parents of this step, the early exit, the batch size
BuildPool ==
    /\ pc = "pool"
    /\ IF PoolList = <<>>
       THEN \* np.concatenate of an empty list raises
            /\ pc' = "error"
            /\ err' = "ValueError"
            /\ UNCHANGED <<available_parents, n_offspring>>
       ELSE /\ available_parents' = Concatenate(PoolList)
            /\ err' = err
            /\ IF Len(Concatenate(PoolList)) = 0
               THEN /\ pc' = "save"
                    /\ n_offspring' = n_offspring
               ELSE /\ pc' = "draw"
                    /\ n_offspring' = NOffspring
    /\ UNCHANGED <<geno, params, store, cursor, selected_sires, selected_dams, end_id, export>>

\* lines 76-84: draw a sire and a dam for every offspring of the batch
Draw ==
    /\ pc = "draw"
    /\ \E p0, p1 \in [1..n_offspring -> 1..Len(available_parents)] :
          /\ selected_sires' = [i \in 1..n_offspring |-> available_parents[p0[i]]]
          /\ selected_dams' = [i \in 1..n_offspring |-> available_parents[p1[i]]]
    /\ pc' = "resample"
    /\ UNCHANGED <<geno, params, err, store, cursor, available_parents, n_offspring, end_id, export>>

\* lines 85-88: one pass of the resampling loop
Redraw ==
    /\ pc = "resample"
    /\ Colliding(selected_sires, selected_dams)
    /\ LET mask == SameParent(selected_sires, selected_dams)
       IN  \E c \in [1..CountTrue(mask) -> 1..Len(available_parents)] :
              selected_dams' =
                  MaskedAssign(selected_dams, mask,
                               [k \in 1..CountTrue(mask) |-> available_parents[c[k]]])
    /\ UNCHANGED <<geno, params, pc, err, store, cursor, available_parents, n_offspring,
                   selected_sires, end_id, export>>

\* line 85 false, lines 91-93: write the batch into the pedigree arrays
Assign ==
    /\ pc = "resample"
    /\ ~Colliding(selected_sires, selected_dams)
    /\ end_id' = current_id + n_offspring
    /\ sires' = SliceAssign(sires, current_id - 1, current_id + n_offspring - 1, selected_sires)
    /\ dams' = SliceAssign(dams, current_id - 1, current_id + n_offspring - 1, selected_dams)
    /\ pc' = "register"
    /\ UNCHANGED <<geno, params, err, ids, cursor, available_parents, n_offspring,
                   selected_sires, selected_dams, export>>

\* lines 96-97: register the new cohort
Register ==
    /\ pc = "register"
    /\ current_generation' = current_generation + 1
    /\ generation_pools' =
          [g \in DOMAIN generation_pools \cup {current_generation + 1} |->
              IF g = current_generation + 1
              THEN NewCohortIds(current_id, end_id)
              ELSE generation_pools[g]]
    /\ cohort_log' =
          [g \in DOMAIN cohort_log \cup {current_generation + 1} |->
              IF g = current_generation + 1
              THEN NewCohortIds(current_id, end_id)
              ELSE cohort_log[g]]
    /\ pc' = "evict"
    /\ UNCHANGED <<geno, params, err, store, current_id, total_generated, batch, export>>

\* lines 100-105: evict the stale cohort, advance the cursor
Evict ==
    /\ pc = "evict"
    /\ generation_pools' =
          IF OldGen \in DOMAIN generation_pools
          THEN Without(generation_pools, OldGen)
          ELSE generation_pools
    /\ current_id' = end_id
    /\ total_generated' = total_generated + n_offspring
    /\ pc' = "loop"
    /\ UNCHANGED <<geno, params, err, store, current_generation, cohort_log, batch, export>>

\* lines 107-118: report, write the pedigree file
SavePedigree ==
    /\ pc = "save"
    /\ reported' = n_individuals
    /\ pedigree_file' = [i \in DOMAIN ids |-> <<ids[i], sires[i], dams[i]>>]
    /\ ped_text' = ToCsv([i \in DOMAIN ids |-> <<ids[i], sires[i], dams[i]>>])
    /\ outputs' = outputs \cup {"output_ped"}
    /\ pc' = "select"
    /\ UNCHANGED <<geno, params, err, store, cursor, batch, genotyped_ids, genotyped_file,
                   xref_text>>

\* lines 121-132: select the genotyped ids, write the cross-reference file
SelectGenotyped ==
    /\ pc = "select"
    /\ genotyped_ids' = GenotypedIds
    /\ genotyped_file' = [i \in DOMAIN GenotypedIds |-> <<GenotypedIds[i], GenotypedIds[i]>>]
    /\ xref_text' = ToCsv([i \in DOMAIN GenotypedIds |-> <<GenotypedIds[i], GenotypedIds[i]>>])
    /\ outputs' = outputs \cup {"output_geno"}
    /\ pc' = "stats"
    /\ UNCHANGED <<geno, params, err, store, cursor, batch, pedigree_file, reported,
                   ped_text>>

\* lines 135-147: the statistics; n_genotyped/n_individuals divides by zero
Statistics ==
    /\ pc = "stats"
    /\ IF n_individuals = 0
       THEN pc' = "error" /\ err' = "ZeroDivisionError"
       ELSE pc' = "done" /\ err' = err
    /\ UNCHANGED <<geno, params, store, cursor, batch, export>>

Next ==
    \/ Allocate
    \/ LoopTest
    \/ BuildPool
    \/ Draw
    \/ Redraw
    \/ Assign
    \/ Register
    \/ Evict
    \/ SavePedigree
    \/ SelectGenotyped
    \/ Statistics

Spec == Init /\ [][Next]_vars

\* A redraw whose result leaves no collision.  While the loop runs on a pool
\* of at least two ids this outcome has positive probability at every pass.
RedrawResolves ==
    /\ Redraw
    /\ ~Colliding(selected_sires', selected_dams')

\* lines 28-105: the steps up to the end of the generation loop
GenerationStep ==
    \/ Allocate
    \/ LoopTest
    \/ BuildPool
    \/ Draw
    \/ Redraw
    \/ Assign
    \/ Register
    \/ Evict

\* The generation loop keeps running, and random redraws are fair.
FairSpec == Spec /\ WF_vars(GenerationStep) /\ WF_vars(RedrawResolves)

----------------------------------------------------------------------------
\* Vocabulary of the properties

\* the generation loop has been left
LoopLeft == pc \in {"save", "select", "stats", "done"}

\* the loop was left by the break of line 69: its test still holds
EarlyExit == LoopLeft /\ current_id <= n_individuals

\* a step is past the construction of its pool; current_generation is still
\* the generation g the step started with
InStep == pc \in {"draw", "resample", "register"}

\* the generation indices the step may take parents from
Window ==
    {g \in DOMAIN cohort_log :
        /\ g >= current_generation - generation_overlap + 1
        /\ g <= current_generation}

\* ids of the cohorts registered in generation_pools with index in the window
WindowIds ==
    UNION {Range(generation_pools[g]) : g \in Window \cap DOMAIN generation_pools}

\* ids of every cohort, evicted or not, with index below g - overlap
StaleIds ==
    UNION {Range(cohort_log[g]) :
              g \in {h \in DOMAIN cohort_log : h < current_generation - generation_overlap}}

\* an input the interface excludes
InvalidConfig ==
    \/ n_genotyped > n_individuals
    \/ n_founders > n_individuals
    \/ n_individuals <= 0
    \/ n_genotyped <= 0
    \/ n_founders <= 0
    \/ generation_overlap < 1

----------------------------------------------------------------------------
\* C1: when the function has left the generation loop (n_founders >= 2,
\* generation_overlap >= 1, n_founders <= n_individuals), every record with
\* id > n_founders has sire # 0, dam # 0 and sire # dam; and every batch that
\* has left the resampling loop has selected_sires[i] # selected_dams[i] for
\* every index i.
C1_DistinctParents ==
    /\ (LoopLeft /\ n_founders >= 2 /\ generation_overlap >= 1
                 /\ n_founders <= n_individuals) =>
          \A i \in (n_founders + 1)..n_individuals :
              sires[i] # 0 /\ dams[i] # 0 /\ sires[i] # dams[i]
    /\ pc = "register" =>
          \A i \in DOMAIN selected_sires : selected_sires[i] # selected_dams[i]

C1_Witness ==
    /\ pc = "done"
    /\ n_founders >= 2 /\ generation_overlap >= 1
    /\ n_individuals >= n_founders + 3
    /\ total_generated = n_individuals - n_founders

\* C2: in every reachable state every record whose sire or dam is non-zero
\* has that parent id strictly less than its own id, and so has every
\* offspring of the batch being sampled.
C2_ParentsPredate ==
    /\ \A i \in DOMAIN sires :
          /\ sires[i] # 0 => sires[i] < ids[i]
          /\ dams[i] # 0 => dams[i] < ids[i]
    /\ pc \in {"resample", "register"} =>
          \A i \in DOMAIN selected_sires :
              /\ selected_sires[i] < current_id + i - 1
              /\ selected_dams[i] < current_id + i - 1

C2_Witness ==
    /\ pc = "done"
    /\ current_generation >= 3
    /\ sires[n_individuals] # 0 /\ dams[n_individuals] # 0

\* C3: the records with id in 1..n_founders have sire = 0 and dam = 0 in
\* every reachable state; no generation step overwrites them.
C3_FoundersZero ==
    \A i \in 1..Min(n_founders, Len(sires)) : sires[i] = 0 /\ dams[i] = 0

C3_Witness ==
    /\ pc = "done"
    /\ n_founders = 2
    /\ n_individuals >= 5
    /\ sires[3] # 0 /\ sires[5] # 0

\* C4: when the eligible-parent pool built for a step has exactly one member
\* (offspring are still to be produced), the run is in an explicit
\* pool-too-small error state; it is never inside the sampling code.
C4_PoolTooSmallRaises ==
    (Len(available_parents) = 1 /\ pc # "pool") =>
        (pc = "error" /\ err = "PoolTooSmall")

\* C5 as stated: at any time generation_pools holds at most
\* generation_overlap + 1 cohorts, also between registration and eviction.
C5_AtMostOverlapPlusOne ==
    Cardinality(DOMAIN generation_pools) <= generation_overlap + 1

\* C5 as amended: generation_pools holds at most generation_overlap + 2
\* cohorts at any time, and at most generation_overlap + 1 except between
\* the registration of a cohort and the eviction that follows it.
C5_AtMostOverlapPlusTwo ==
    /\ Cardinality(DOMAIN generation_pools) <= generation_overlap + 2
    /\ pc # "evict" =>
          Cardinality(DOMAIN generation_pools) <= generation_overlap + 1

C5_Witness ==
    /\ pc = "evict"
    /\ Cardinality(DOMAIN generation_pools) = generation_overlap + 2

\* C6: in every generation step with current generation g, the eligible
\* parents are exactly the ids of the registered cohorts with index in
\* [g - overlap + 1, g]; every sire and dam sampled for, and written to, an
\* offspring of cohort g + 1 is one of these ids and is in no cohort with
\* index < g - overlap.
C6_ParentsFromWindow ==
    InStep =>
        /\ Range(available_parents) = WindowIds
        /\ pc \in {"resample", "register"} =>
              \A i \in DOMAIN selected_sires :
                  /\ selected_sires[i] \in WindowIds \ StaleIds
                  /\ selected_dams[i] \in WindowIds \ StaleIds
        /\ pc = "register" =>
              \A i \in current_id..(end_id - 1) :
                  /\ sires[i] \in WindowIds \ StaleIds
                  /\ dams[i] \in WindowIds \ StaleIds

C6_Witness ==
    /\ pc = "register"
    /\ current_generation - generation_overlap >= 1
    /\ StaleIds # {}
    /\ sires[current_id] # 0

\* C7: for 0 < n_genotyped <= n_individuals the genotyped ids selected and
\* written are exactly n_individuals - n_genotyped + 1 .. n_individuals,
\* each once, in ascending order.
C7_GenotypedAreLast ==
    (pc \in {"stats", "done"} /\ 0 < n_genotyped /\ n_genotyped <= n_individuals) =>
        /\ genotyped_ids =
              [i \in 1..n_genotyped |-> n_individuals - n_genotyped + i]
        /\ genotyped_file =
              [i \in 1..n_genotyped |->
                  <<n_individuals - n_genotyped + i, n_individuals - n_genotyped + i>>]

C7_Witness ==
    /\ pc = "done"
    /\ n_genotyped = 2
    /\ n_individuals >= 4
    /\ Len(genotyped_file) = 2

\* C8: a call with n_genotyped > n_individuals, n_founders > n_individuals,
\* a non-positive size or generation_overlap < 1 is rejected: it samples no
\* batch, leaves the loop towards no export, and produces no output.
C8_InvalidConfigRejected ==
    InvalidConfig =>
        /\ outputs = {}
        /\ pc \notin {"draw", "resample", "register", "evict",
                      "save", "select", "stats", "done"}

\* C9: when the loop is left early on an empty eligible pool, no exception
\* is raised and the count of records reported and written is the actual
\* count, strictly less than n_individuals.
C9_EarlyExitReportsActualCount ==
    (EarlyExit /\ pc \in {"select", "stats", "done"}) =>
        /\ err = "none"
        /\ reported < n_individuals
        /\ Len(pedigree_file) < n_individuals

\* the states in which a step has built a pool of fewer than two ids
SmallPool ==
    /\ pc \in {"draw", "save"}
    /\ current_id <= n_individuals
    /\ Len(available_parents) < 2

\* the generation loop has terminated normally
NormalEnd == LoopLeft /\ current_id = n_individuals + 1

\* C10: for n_founders <= n_individuals and generation_overlap >= 1,
\* whenever every eligible pool built has at least 2 members, under fair
\* redraws every resampling loop ends and the generation loop terminates
\* normally with current_id = n_individuals + 1; current_id never decreases
\* and strictly increases at every generation step.
C10_Terminates ==
    /\ (/\ n_founders <= n_individuals
        /\ generation_overlap >= 1
        /\ n_individuals >= 0
        /\ [](~SmallPool)) => <>NormalEnd
    /\ [][/\ current_id' >= current_id
          /\ pc = "evict" => current_id' > current_id]_vars

C10_Witness ==
    /\ pc = "done"
    /\ current_id = n_individuals + 1
    /\ current_generation >= 3
    /\ generation_overlap = 1

\* C11: for every finalized pedigree, the lines written to output_ped
\* ("id sire dam", one per individual) parse back to the identical sequence
\* of (id, sire, dam) triples, in the same, ascending id, order.
C11_PedigreeRoundTrip ==
    "output_ped" \in outputs =>
        /\ Len(ped_text) = Len(ids)
        /\ \A i \in DOMAIN ped_text :
              ParseRow(ped_text[i]) = <<ids[i], sires[i], dams[i]>>
        /\ \A i \in DOMAIN ped_text : ParseRow(ped_text[i])[1] = i

C11_Witness ==
    /\ pc = "done"
    /\ Len(ped_text) = 11
    /\ sires[11] = 10
    /\ dams[11] = 3
    /\ ped_text[11] = <<"1", "1", " ", "1", "0", " ", "3">>

----------------------------------------------------------------------------
\* simulate_genotypes

\* ids.max()
ArrayMax(a) == CHOOSE m \in Range(a) : \A x \in Range(a) : x <= m

\* str.zfill(width): zeros on the left, after a leading sign
RECURSIVE Zfill(_, _)
Zfill(s, width) ==
    IF Len(s) >= width THEN s
    ELSE IF s # <<>> /\ s[1] \in {"-", "+"}
         THEN <<s[1]>> \o Zfill(Tail(s), width - 1)
         ELSE Zfill(<<"0">> \o s, width)

\* variant: a chunk that stops one id short
ChunkEndShort(start, n) == Min(start + geno_chunk_size - 1, n)

\* chunk_end = min(chunk_start + chunk_size, n_individuals)
ChunkEnd(start, n) == Min(start + geno_chunk_size, n)

\* f"{id_str} {geno_string}" with id_str = str(animal_id).zfill(max_id_width)
\* and geno_string = ''.join(genotypes[idx].astype(str))
GenoLine(animal_id, calls) ==
    Zfill(Str(animal_id), max_id_width) \o <<" ">>
        \o Join([k \in DOMAIN calls |-> Str(calls[k])], <<>>)

\* Genotyped files as simulate_pedigree writes them ("id id" per line), for
\* every sequence of ids around the one-digit / two-digit boundary, in any
\* order and with repetitions; the empty file included.
GenoInit ==
    /\ \E len \in 0..MaxGenoLines :
          \E read \in [1..len -> (MaxGenoId - 2)..MaxGenoId] :
              geno_input = ToCsv([i \in 1..len |-> <<read[i], read[i]>>])
    /\ n_snps \in 0..MaxSnps
    /\ Len(geno_input) * n_snps <= MaxCalls
    /\ geno_pc = "read"
    /\ geno_err = "none"
    /\ geno_ids = <<>>
    /\ max_id_width = 0
    /\ chunk_start = 0
    /\ geno_output = <<>>
    /\ chunk_log = <<>>
    /\ n_individuals = 0 /\ n_genotyped = 0 /\ n_founders = 0
    /\ generation_overlap = 0
    /\ pc = "start"
    /\ err = "none"
    /\ ids = <<>> /\ sires = <<>> /\ dams = <<>>
    /\ current_generation = 0
    /\ generation_pools = <<>>
    /\ cohort_log = <<>>
    /\ current_id = 0
    /\ total_generated = 0
    /\ available_parents = <<>>
    /\ n_offspring = 0
    /\ selected_sires = <<>> /\ selected_dams = <<>>
    /\ end_id = 0
    /\ pedigree_file = <<>>
    /\ genotyped_ids = <<>>
    /\ genotyped_file = <<>>
    /\ reported = 0
    /\ outputs = {}
    /\ ped_text = <<>>
    /\ xref_text = <<>>

\* lines 24-34: read the first token of every line, take the id width
ReadIds ==
    /\ geno_pc = "read"
    /\ geno_ids' = [i \in DOMAIN geno_input |-> ParseInt(Split(geno_input[i])[1])]
    /\ IF geno_input = <<>>
       THEN \* ids.max() of an empty array raises
            /\ geno_pc' = "error"
            /\ geno_err' = "ValueError"
            /\ UNCHANGED max_id_width
       ELSE /\ max_id_width' = Len(Str(ArrayMax(geno_ids')))
            /\ geno_pc' = "chunks"
            /\ UNCHANGED geno_err
    /\ UNCHANGED <<geno_input, n_snps, chunk_start, geno_output, chunk_log, pedigree>>

\* lines 50-74: one iteration of the chunk loop, the genotype calls drawn by
\* np.random.choice([0, 1, 2]) for every id and SNP of the chunk
ProcessChunk ==
    /\ geno_pc = "chunks"
    /\ chunk_start < Len(geno_ids)
    /\ LET chunk_end == ChunkEnd(chunk_start, Len(geno_ids))
           chunk_ids == SubSeq(geno_ids, chunk_start + 1, chunk_end)
       IN  /\ \E genotypes \in [DOMAIN chunk_ids -> [1..n_snps -> {0, 1, 2}]] :
                 geno_output' = geno_output \o
                     [idx \in DOMAIN chunk_ids |-> GenoLine(chunk_ids[idx], genotypes[idx])]
           /\ chunk_log' = Append(chunk_log, <<chunk_start, chunk_end>>)
    /\ chunk_start' = chunk_start + geno_chunk_size
    /\ UNCHANGED <<geno_input, n_snps, geno_pc, geno_err, geno_ids, max_id_width, pedigree>>

\* lines 76-110: the chunk loop is over and the file is closed; the report
\* reads the file back and line 110 takes parts[1] of the first lines
Report ==
    /\ geno_pc = "chunks"
    /\ chunk_start >= Len(geno_ids)
    /\ IF n_snps = 0
       THEN \* "id \n" stripped and split has a single part
            /\ geno_pc' = "error"
            /\ geno_err' = "IndexError"
       ELSE /\ geno_pc' = "done"
            /\ UNCHANGED geno_err
    /\ UNCHANGED <<geno_input, n_snps, geno_ids, max_id_width, chunk_start,
                   geno_output, chunk_log, pedigree>>

GenoNext ==
    \/ ReadIds
    \/ ProcessChunk
    \/ Report

GenoSpec == GenoInit /\ [][GenoNext]_vars

\* output_file is complete and closed
GenoWritten ==
    \/ geno_pc = "done"
    \/ geno_pc = "error" /\ geno_err = "IndexError"

\* the id on line i of the genotyped file
InputId(i) == ParseRow(geno_input[i])[1]

\* the number of decimal digits of m >= 1
DigitWidth(m) == CHOOSE w \in 1..9 : 10^(w - 1) <= m /\ m < 10^w

\* the largest id of the genotyped file
LargestInputId ==
    CHOOSE m \in {InputId(i) : i \in DOMAIN geno_input} :
        \A i \in DOMAIN geno_input : InputId(i) <= m

\* C18: simulate_genotypes processes the ids read from the genotyped file in
\* chunks that cover every id exactly once in input order: the output has
\* exactly one line per input id, in the same order, made of the id
\* zero-padded to the digit width of the largest id (the same width on
\* every line), a space, and exactly n_snps characters each in {0, 1, 2}.
C18_OneLinePerId ==
    /\ \A k \in DOMAIN chunk_log :
          /\ chunk_log[k][1] = (IF k = 1 THEN 0 ELSE chunk_log[k - 1][2])
          /\ chunk_log[k][1] < chunk_log[k][2]
          /\ chunk_log[k][2] <= Len(geno_input)
    /\ Len(geno_output) =
          (IF chunk_log = <<>> THEN 0 ELSE chunk_log[Len(chunk_log)][2])
    /\ GenoWritten => Len(geno_output) = Len(geno_input)
    /\ \A i \in DOMAIN geno_output :
          LET line == geno_output[i]
              width == DigitWidth(LargestInputId)
          IN  /\ Len(line) = width + 1 + n_snps
              /\ \A k \in 1..width : \E d \in DOMAIN DigitChars : line[k] = DigitChars[d]
              /\ ParseInt(SubSeq(line, 1, width)) = InputId(i)
              /\ line[width + 1] = " "
              /\ \A k \in (width + 2)..Len(line) : line[k] \in {"0", "1", "2"}

C18_Witness ==
    /\ geno_pc = "done"
    /\ Len(chunk_log) = 2
    /\ Len(geno_output) = 3
    /\ geno_output[1] = <<"1", "0", " ", "2">>
    /\ geno_output[2] = <<"0", "9", " ", "0">>
    /\ geno_output[3] = <<"0", "8", " ", "1">>

----------------------------------------------------------------------------
\* the generation indices max(0, g - overlap) .. g
RetainedGenerations ==
    Max(0, current_generation - generation_overlap)..current_generation

\* a generation step has not yet registered its cohort
BeforeRegister == pc \in {"loop", "pool", "draw", "resample", "register"}

\* C12: at the start of every generation step, and after every eviction
\* until the next registration, the generation indices registered in
\* generation_pools are exactly max(0, current_generation - overlap) ..
\* current_generation.
C12_RegisteredWindow ==
    BeforeRegister => DOMAIN generation_pools = RetainedGenerations

C12_Witness ==
    /\ pc = "pool"
    /\ current_generation - generation_overlap >= 1
    /\ 0 \notin DOMAIN generation_pools

\* every cohort ever registered, in the order of the generation indices
AllCohorts ==
    IF cohort_log = <<>> THEN <<>>
    ELSE Concatenate([k \in 1..Cardinality(DOMAIN cohort_log) |-> cohort_log[k - 1]])

\* C13: each generation step registers as cohort current_generation + 1
\* exactly the ids current_id .. current_id + n - 1 with
\* n = min(chunk_size, n_individuals - current_id + 1); the cohorts are
\* contiguous, pairwise disjoint id ranges in the order of their indices;
\* on normal termination cohorts 0..current_generation are exactly
\* 1..n_individuals and there are n_individuals records.
C13_CohortsPartition ==
    /\ pc = "evict" =>
          LET n == IF chunk_size < n_individuals - current_id + 1
                   THEN chunk_size ELSE n_individuals - current_id + 1
          IN  /\ n >= 1
              /\ n_offspring = n
              /\ generation_pools[current_generation] =
                     [i \in 1..n |-> current_id + i - 1]
              /\ cohort_log[current_generation] = generation_pools[current_generation]
    /\ cohort_log # <<>> =>
          /\ DOMAIN cohort_log = 0..current_generation
          /\ AllCohorts = [i \in 1..Len(AllCohorts) |-> i]
    /\ (cohort_log # <<>> /\ pc \in {"loop", "pool", "draw", "resample", "register"}) =>
          Len(AllCohorts) = current_id - 1
    /\ (LoopLeft /\ current_id = n_individuals + 1) =>
          /\ AllCohorts = [i \in 1..n_individuals |-> i]
          /\ Len(ids) = n_individuals
          /\ Len(sires) = n_individuals /\ Len(dams) = n_individuals

C13_Witness ==
    /\ pc = "done"
    /\ current_id = n_individuals + 1
    /\ current_generation = 3
    /\ Len(cohort_log[3]) = 1
    /\ Len(cohort_log[2]) = chunk_size

\* C14: the record store is append-only: a step changes the sire or dam
\* only of the ids current_id .. current_id + n_offspring - 1, when it
\* writes its batch; the number of records never changes after allocation;
\* registering and evicting cohorts change no record.
C14_AppendOnly ==
    [][/\ pc # "start" => (ids' = ids /\ Len(sires') = Len(sires) /\ Len(dams') = Len(dams))
       /\ pc \in {"register", "evict"} => (sires' = sires /\ dams' = dams)
       /\ \A i \in DOMAIN sires \cap DOMAIN sires' :
             (sires'[i] # sires[i] \/ dams'[i] # dams[i]) =>
                 /\ pc = "resample" /\ pc' = "register"
                 /\ i >= current_id
                 /\ i <= current_id + n_offspring - 1]_vars

\* an evicted cohort has an id that is still a recorded parent
C14_Witness ==
    /\ pc = "loop"
    /\ \E g \in DOMAIN cohort_log \ DOMAIN generation_pools :
          \E i \in DOMAIN sires : sires[i] \in Range(cohort_log[g])

\* C15: a pass of the resampling loop changes only the dam entries at the
\* indices where sire = dam at that moment: the sires, the pool and the dams
\* at the other indices are unchanged, and every redrawn dam is a member of
\* the same eligible-parent pool.
C15_RedrawOnlyColliding ==
    [][(pc = "resample" /\ pc' = "resample") =>
          /\ selected_sires' = selected_sires
          /\ available_parents' = available_parents
          /\ DOMAIN selected_dams' = DOMAIN selected_dams
          /\ \A i \in DOMAIN selected_dams :
                IF selected_sires[i] = selected_dams[i]
                THEN selected_dams'[i] \in Range(available_parents)
                ELSE selected_dams'[i] = selected_dams[i]]_vars

\* a batch in the loop with a colliding and a non-colliding index
C15_Witness ==
    /\ pc = "resample"
    /\ \E i, j \in DOMAIN selected_sires :
          /\ selected_sires[i] = selected_dams[i]
          /\ selected_sires[j] # selected_dams[j]

\* the number of ids held in generation_pools
RECURSIVE SumLen(_, _)
SumLen(d, gens) ==
    IF gens = {} THEN 0
    ELSE LET g == CHOOSE x \in gens : TRUE
         IN  Len(d[g]) + SumLen(d, gens \ {g})

PoolIdCount == SumLen(generation_pools, DOMAIN generation_pools)

\* the founder cohort was registered and has been evicted
FoundersEvicted == 0 \in DOMAIN cohort_log /\ 0 \notin DOMAIN generation_pools

C16_AmendedBounds ==
    /\ PoolIdCount <= n_founders + (generation_overlap + 1) * chunk_size
    /\ FoundersEvicted =>
          /\ PoolIdCount <= (generation_overlap + 2) * chunk_size
          /\ pc # "evict" => PoolIdCount <= (generation_overlap + 1) * chunk_size

C17_WindowAlwaysRegistered ==
    (n_founders >= 1 /\ generation_overlap >= 1) =>
        /\ BeforeRegister =>
              \A g \in Max(0, current_generation - generation_overlap + 1)
                          ..current_generation :
                  g \in DOMAIN generation_pools /\ Len(generation_pools[g]) >= 1
        /\ pc = "pool" =>
              /\ Len(PoolList) = Len(ActiveGenerations)
              /\ Len(PoolList) >= 1
        /\ InStep => Len(available_parents) >= 1
        /\ ~EarlyExit

C17_Witness ==
    /\ pc = "draw"
    /\ generation_overlap = 1
    /\ current_generation = 2
    /\ 0 \notin DOMAIN generation_pools
    /\ Len(available_parents) = chunk_size

=============================================================================
